---- MODULE Spec2Model ----
(***************************************************************************)
(* A model of the Superdev HTTP service (src/src/main.rs, handlers.rs,     *)
(* utils.rs, errors.rs): seven POST handlers that validate base58/base64   *)
(* inputs, delegate to the Solana SDK and wrap the result in a JSON        *)
(* envelope.  Text is modelled as sequences of one-character strings and   *)
(* binary data as sequences of bytes (0..255), so that the encodings are   *)
(* computed, not assumed.                                                  *)
(***************************************************************************)
EXTENDS Integers, Sequences, FiniteSets, TLC

VARIABLES inflight, strict

vars == <<inflight, strict>>

-----------------------------------------------------------------------------
(* Generic helpers on sequences.                                           *)

Reverse(s) == [i \in 1..Len(s) |-> s[Len(s) + 1 - i]]

Repeat(x, n) == [i \in 1..n |-> x]

\* t occurs in s as a contiguous run (str::contains); the empty text always does.
Contains(s, t) ==
    \E k \in 0..(Len(s) - Len(t)) : \A i \in 1..Len(t) : s[k + i] = t[i]

RECURSIVE LeadingCount(_, _, _)
LeadingCount(s, x, k) ==
    IF k <= Len(s) /\ s[k] = x THEN LeadingCount(s, x, k + 1) ELSE k - 1

\* Decimal rendering of a small natural number ({} of a usize).
Digits == <<"0","1","2","3","4","5","6","7","8","9">>

RECURSIVE Decimal(_)
Decimal(n) ==
    IF n < 10 THEN <<Digits[n + 1]>> ELSE Append(Decimal(n \div 10), Digits[(n % 10) + 1])

-----------------------------------------------------------------------------
(* base58 (crate bs58, Bitcoin alphabet), as used by bs58::decode / encode *)
(* and by Pubkey::from_str / Pubkey::to_string.                            *)

B58Alphabet ==
    <<"1","2","3","4","5","6","7","8","9","A","B","C","D","E","F","G","H","J","K","L",
      "M","N","P","Q","R","S","T","U","V","W","X","Y","Z","a","b","c","d","e","f","g",
      "h","i","j","k","m","n","o","p","q","r","s","t","u","v","w","x","y","z">>

B58Chars == {B58Alphabet[i] : i \in 1..Len(B58Alphabet)}

B58Index == [c \in B58Chars |-> (CHOOSE i \in 1..Len(B58Alphabet) : B58Alphabet[i] = c) - 1]

\* The loops below run over index ranges split in halves (the same steps in the same
\* order as the crate's for loops), which keeps the evaluation depth logarithmic.
\* Each guard also reads the accumulator, so that it is evaluated before the next half.

\* while val > 0 { output[index] = val as u8; index += 1; val >>= 8 }
RECURSIVE B58PushCarry(_, _, _)
B58PushCarry(out, val, base) ==
    IF val > 0 THEN B58PushCarry(Append(out, val % base), val \div base, base) ELSE out

\* for byte in &mut output[lo..=hi] { val += byte * 58; byte = val & 0xff; val >>= 8 }
RECURSIVE B58DecodeCarry(_, _, _)
B58DecodeCarry(st, lo, hi) ==
    IF lo > hi \/ st.val < 0 THEN st
    ELSE IF lo = hi
    THEN LET v == st.val + st.out[lo] * Len(B58Alphabet)
         IN  [out |-> [st.out EXCEPT ![lo] = v % 256], val |-> v \div 256]
    ELSE LET mid == (lo + hi) \div 2
         IN  B58DecodeCarry(B58DecodeCarry(st, lo, mid), mid + 1, hi)

\* One input character folded into the little-endian byte buffer.
B58DecodeChar(r, c) ==
    IF ~r.ok \/ c \notin B58Chars THEN [ok |-> FALSE, bytes |-> <<>>]
    ELSE LET st == B58DecodeCarry([out |-> r.bytes, val |-> B58Index[c]], 1, Len(r.bytes))
         IN  [ok |-> TRUE, bytes |-> B58PushCarry(st.out, st.val, 256)]

\* for c in input[lo..=hi]
RECURSIVE B58DecodeChars(_, _, _, _)
B58DecodeChars(s, r, lo, hi) ==
    IF lo > hi \/ ~r.ok THEN r
    ELSE IF lo = hi THEN B58DecodeChar(r, s[lo])
    ELSE LET mid == (lo + hi) \div 2
         IN  B58DecodeChars(s, B58DecodeChars(s, r, lo, mid), mid + 1, hi)

\* bs58::decode(s).into_vec(): Err on a character outside the alphabet, else the bytes.
Base58Decode(s) ==
    LET r == B58DecodeChars(s, [ok |-> TRUE, bytes |-> <<>>], 1, Len(s))
        zeros == LeadingCount(s, B58Alphabet[1], 1)
    IN  IF r.ok
        THEN [ok |-> TRUE, bytes |-> Reverse(r.bytes \o Repeat(0, zeros))]
        ELSE r

\* for digit in &mut output[lo..=hi] { carry += digit << 8; digit = carry % 58; carry /= 58 }
RECURSIVE B58EncodeCarry(_, _, _)
B58EncodeCarry(st, lo, hi) ==
    IF lo > hi \/ st.val < 0 THEN st
    ELSE IF lo = hi
    THEN LET v == st.val + st.out[lo] * 256
         IN  [out |-> [st.out EXCEPT ![lo] = v % Len(B58Alphabet)],
              val |-> v \div Len(B58Alphabet)]
    ELSE LET mid == (lo + hi) \div 2
         IN  B58EncodeCarry(B58EncodeCarry(st, lo, mid), mid + 1, hi)

B58EncodeByte(digits, byte) ==
    LET st == B58EncodeCarry([out |-> digits, val |-> byte], 1, Len(digits))
    IN  B58PushCarry(st.out, st.val, Len(B58Alphabet))

\* for byte in input[lo..=hi]
RECURSIVE B58EncodeBytes(_, _, _, _)
B58EncodeBytes(b, digits, lo, hi) ==
    IF lo > hi \/ Len(digits) < 0 THEN digits
    ELSE IF lo = hi THEN B58EncodeByte(digits, b[lo])
    ELSE LET mid == (lo + hi) \div 2
         IN  B58EncodeBytes(b, B58EncodeBytes(b, digits, lo, mid), mid + 1, hi)

\* bs58::encode(bytes).into_string()
Base58Encode(b) ==
    LET digits == B58EncodeBytes(b, <<>>, 1, Len(b)) \o Repeat(0, LeadingCount(b, 0, 1))
    IN  Reverse([i \in 1..Len(digits) |-> B58Alphabet[digits[i] + 1]])

-----------------------------------------------------------------------------
(* base64 (engine general_purpose::STANDARD: standard alphabet, canonical  *)
(* '=' padding required, trailing bits must be zero).                      *)

B64Alphabet ==
    <<"A","B","C","D","E","F","G","H","I","J","K","L","M","N","O","P","Q","R","S","T",
      "U","V","W","X","Y","Z","a","b","c","d","e","f","g","h","i","j","k","l","m","n",
      "o","p","q","r","s","t","u","v","w","x","y","z","0","1","2","3","4","5","6","7",
      "8","9","+","/">>

B64Pad == "="

B64Chars == {B64Alphabet[i] : i \in 1..Len(B64Alphabet)}

B64Index == [c \in B64Chars |-> (CHOOSE i \in 1..Len(B64Alphabet) : B64Alphabet[i] = c) - 1]

\* The 1..3 bytes of group g of b, as four symbols.
B64EncodeGroup(b, g) ==
    LET n  == Len(b) - 3 * g
        b1 == b[3 * g + 1]
        b2 == IF n >= 2 THEN b[3 * g + 2] ELSE 0
        b3 == IF n >= 3 THEN b[3 * g + 3] ELSE 0
        v  == (b1 * 256 + b2) * 256 + b3
    IN  << B64Alphabet[(v \div 262144) + 1],
           B64Alphabet[((v \div 4096) % 64) + 1],
           IF n >= 2 THEN B64Alphabet[((v \div 64) % 64) + 1] ELSE B64Pad,
           IF n >= 3 THEN B64Alphabet[(v % 64) + 1] ELSE B64Pad >>

RECURSIVE B64EncodeFrom(_, _)
B64EncodeFrom(b, g) ==
    IF 3 * g >= Len(b) THEN <<>> ELSE B64EncodeGroup(b, g) \o B64EncodeFrom(b, g + 1)

\* general_purpose::STANDARD.encode(bytes)
Base64Encode(b) == B64EncodeFrom(b, 0)

\* Symbols of quantum q of s; the last quantum may end in one or two pads.
B64DecodeGroup(s, q) ==
    LET c1 == s[4 * q + 1]
        c2 == s[4 * q + 2]
        c3 == s[4 * q + 3]
        c4 == s[4 * q + 4]
        last == 4 * q + 4 = Len(s)
        pad2 == last /\ c3 = B64Pad /\ c4 = B64Pad
        pad1 == last /\ c3 # B64Pad /\ c4 = B64Pad
    IN  IF c1 \notin B64Chars \/ c2 \notin B64Chars THEN [ok |-> FALSE, bytes |-> <<>>]
        ELSE IF pad2
        THEN LET v == B64Index[c1] * 64 + B64Index[c2]
             IN  IF v % 16 # 0 THEN [ok |-> FALSE, bytes |-> <<>>]
                 ELSE [ok |-> TRUE, bytes |-> <<v \div 16>>]
        ELSE IF c3 \notin B64Chars THEN [ok |-> FALSE, bytes |-> <<>>]
        ELSE IF pad1
        THEN LET v == (B64Index[c1] * 64 + B64Index[c2]) * 64 + B64Index[c3]
             IN  IF v % 4 # 0 THEN [ok |-> FALSE, bytes |-> <<>>]
                 ELSE [ok |-> TRUE, bytes |-> <<v \div 1024, (v \div 4) % 256>>]
        ELSE IF c4 \notin B64Chars THEN [ok |-> FALSE, bytes |-> <<>>]
        ELSE LET v == ((B64Index[c1] * 64 + B64Index[c2]) * 64 + B64Index[c3]) * 64
                      + B64Index[c4]
             IN  [ok |-> TRUE, bytes |-> <<v \div 65536, (v \div 256) % 256, v % 256>>]

RECURSIVE B64DecodeFrom(_, _)
B64DecodeFrom(s, q) ==
    IF 4 * q >= Len(s) THEN [ok |-> TRUE, bytes |-> <<>>]
    ELSE LET g == B64DecodeGroup(s, q)
             rest == B64DecodeFrom(s, q + 1)
         IN  IF g.ok /\ rest.ok
             THEN [ok |-> TRUE, bytes |-> g.bytes \o rest.bytes]
             ELSE [ok |-> FALSE, bytes |-> <<>>]

\* general_purpose::STANDARD.decode(s): Err unless s is whole padded quanta of symbols.
Base64Decode(s) ==
    IF Len(s) % 4 # 0 THEN [ok |-> FALSE, bytes |-> <<>>] ELSE B64DecodeFrom(s, 0)

-----------------------------------------------------------------------------
(* The Solana SDK types the handlers use.  Byte layouts and lengths are the *)
(* SDK's; the Ed25519 arithmetic itself is replaced by a small Schnorr      *)
(* scheme over bytes with the same interface and the same algebra           *)
(* (public = G*a, S = r + h*a, accept iff G*S = R + h*A), in which a        *)
(* 32-byte string is a point only if its last byte is the checksum of the   *)
(* first 31.                                                                *)

PUBKEY_BYTES == 32

SECRET_KEY_LENGTH == 32

KEYPAIR_LENGTH == 64

SIGNATURE_BYTES == 64

MAX_BASE58_LEN == 44

Ok(v) == [ok |-> TRUE, val |-> v]

Err(e) == [ok |-> FALSE, err |-> e]

RECURSIVE SumRange(_, _, _)
SumRange(s, lo, hi) ==
    IF lo > hi THEN 0
    ELSE IF lo = hi THEN s[lo]
    ELSE SumRange(s, lo, (lo + hi) \div 2) + SumRange(s, ((lo + hi) \div 2) + 1, hi)

\* The n little-endian bytes of v (u32 / u64 to_le_bytes, values below 2^31).
RECURSIVE LeBytes(_, _)
LeBytes(v, n) == IF n = 0 THEN <<>> ELSE <<v % 256>> \o LeBytes(v \div 256, n - 1)

\* &str::as_bytes for the characters the messages of the model use (space, digits,
\* letters): the ASCII code of each.
UpperCase ==
    <<"A","B","C","D","E","F","G","H","I","J","K","L","M","N","O","P","Q","R","S","T",
      "U","V","W","X","Y","Z">>

LowerCase ==
    <<"a","b","c","d","e","f","g","h","i","j","k","l","m","n","o","p","q","r","s","t",
      "u","v","w","x","y","z">>

IndexIn(s, c) == CHOOSE k \in 1..Len(s) : s[k] = c

CharCode(c) ==
    IF c = " " THEN 32
    ELSE IF \E k \in 1..Len(Digits) : Digits[k] = c THEN 47 + IndexIn(Digits, c)
    ELSE IF \E k \in 1..Len(UpperCase) : UpperCase[k] = c THEN 64 + IndexIn(UpperCase, c)
    ELSE 96 + IndexIn(LowerCase, c)

AsBytes(text) == [i \in 1..Len(text) |-> CharCode(text[i])]

\* Pubkey::from_str: at most 44 characters, base58, exactly 32 bytes.
PubkeyFromStr(s) ==
    IF Len(s) > MAX_BASE58_LEN THEN Err("WrongSize")
    ELSE LET d == Base58Decode(s)
         IN  IF ~d.ok THEN Err("Invalid")
             ELSE IF Len(d.bytes) # PUBKEY_BYTES THEN Err("WrongSize")
             ELSE Ok(d.bytes)

\* Pubkey::to_string
PubkeyToString(key) == Base58Encode(key)

\* A position-weighted digest of a byte string, one byte wide.
Digest(b) == (SumRange([i \in 1..Len(b) |-> (i * (b[i] + 1)) % 256], 1, Len(b)) + Len(b)) % 256

ScalarLen == PUBKEY_BYTES - 1

Checksum(c) == SumRange(c, 1, ScalarLen) % 256

\* The compressed encoding of the point with coordinates c.
Compress(c) == [i \in 1..PUBKEY_BYTES |-> IF i <= ScalarLen THEN c[i] ELSE Checksum(c)]

\* PublicKey::from_bytes: the bytes decompress to a point.
IsPoint(key) == Len(key) = PUBKEY_BYTES /\ key[PUBKEY_BYTES] = Checksum(key)

\* The secret scalar expanded from the 32-byte seed.
ExpandSecret(seed) == [i \in 1..ScalarLen |-> (seed[i] + seed[SECRET_KEY_LENGTH]) % 256]

BasePointMul(a) == [i \in 1..ScalarLen |-> (5 * a[i]) % 256]

\* PublicKey::from(&secret)
PublicFromSecret(seed) == Compress(BasePointMul(ExpandSecret(seed)))

\* Keypair::new() on the 32 bytes the random source returned.
KeypairNew(seed) == [secret |-> seed, public |-> PublicFromSecret(seed)]

\* Keypair::to_bytes: secret half, then public half.
KeypairToBytes(kp) == kp.secret \o kp.public

\* Keypair::try_from(&[u8]): 64 bytes whose public half is a point; a library that
\* checks the pair (strictLib) also requires the public half to be derived from the
\* secret half.
KeypairTryFrom(bytes, strictLib) ==
    IF Len(bytes) # KEYPAIR_LENGTH THEN Err("signature error")
    ELSE LET secret == SubSeq(bytes, 1, SECRET_KEY_LENGTH)
             public == SubSeq(bytes, SECRET_KEY_LENGTH + 1, KEYPAIR_LENGTH)
         IN  IF ~IsPoint(public) THEN Err("signature error")
             ELSE IF strictLib /\ public # PublicFromSecret(secret)
             THEN Err("signature error")
             ELSE Ok([secret |-> secret, public |-> public])

\* Keypair::sign_message: R = G*r, S = r + h*a with h = H(R, A, M); 64 bytes.
SignMessage(kp, msg) ==
    LET a == ExpandSecret(kp.secret)
        nonce == Digest(<<kp.secret[SECRET_KEY_LENGTH]>> \o msg)
        r == [i \in 1..ScalarLen |-> (nonce + i * (kp.secret[i] + 1)) % 256]
        R == Compress(BasePointMul(r))
        h == Digest(R \o kp.public \o msg)
        S == [i \in 1..PUBKEY_BYTES |-> IF i <= ScalarLen THEN (r[i] + h * a[i]) % 256 ELSE 0]
    IN  R \o S

\* Signature::try_from(&[u8]): exactly 64 bytes.
SignatureTryFrom(bytes) ==
    IF Len(bytes) # SIGNATURE_BYTES THEN Err("WrongSize") ELSE Ok(bytes)

\* Signature::verify(pubkey_bytes, message_bytes): false unless the key and R are
\* points, S is canonical and G*S = R + h*A.
SignatureVerify(sig, key, msg) ==
    LET R == SubSeq(sig, 1, PUBKEY_BYTES)
        S == SubSeq(sig, PUBKEY_BYTES + 1, SIGNATURE_BYTES)
        h == Digest(R \o key \o msg)
    IN  /\ IsPoint(key)
        /\ IsPoint(R)
        /\ S[PUBKEY_BYTES] = 0
        /\ \A i \in 1..ScalarLen : (5 * S[i]) % 256 = (R[i] + h * key[i]) % 256

-----------------------------------------------------------------------------
(* The instruction builders the handlers delegate to (spl_token,            *)
(* spl_associated_token_account, solana_system_interface).                  *)

TokenProgramIdStr ==
    <<"T","o","k","e","n","k","e","g","Q","f","e","Z","y","i","N","w","A","J","b","N",
      "b","G","K","P","F","X","C","W","u","B","v","f","9","S","s","6","2","3","V","Q",
      "5","D","A">>

SystemProgramIdStr ==
    <<"1","1","1","1","1","1","1","1","1","1","1","1","1","1","1","1","1","1","1","1",
      "1","1","1","1","1","1","1","1","1","1","1","1">>

RentSysvarIdStr ==
    <<"S","y","s","v","a","r","R","e","n","t","1","1","1","1","1","1","1","1","1","1",
      "1","1","1","1","1","1","1","1","1","1","1","1","1","1","1","1","1","1","1","1",
      "1","1","1">>

AssociatedTokenProgramIdStr ==
    <<"A","T","o","k","e","n","G","P","v","b","d","G","V","x","r","1","b","2","h","v",
      "Z","b","s","i","q","W","5","x","W","H","2","5","e","f","T","N","s","L","J","A",
      "8","k","n","L">>

TokenProgramId == Base58Decode(TokenProgramIdStr).bytes

SystemProgramId == Base58Decode(SystemProgramIdStr).bytes

RentSysvarId == Base58Decode(RentSysvarIdStr).bytes

AssociatedTokenProgramId == Base58Decode(AssociatedTokenProgramIdStr).bytes

Meta(key, signer, writable) == [pubkey |-> key, is_signer |-> signer, is_writable |-> writable]

\* spl_token::check_program_account
CheckProgramAccount(program) == program = TokenProgramId

\* spl_token::instruction::initialize_mint with no freeze authority
initialize_mint(program, mintKey, authorityKey, decimals) ==
    IF ~CheckProgramAccount(program) THEN Err("IncorrectProgramId")
    ELSE Ok([program_id |-> program,
             accounts |-> <<Meta(mintKey, FALSE, TRUE), Meta(RentSysvarId, FALSE, FALSE)>>,
             data |-> <<0, decimals>> \o authorityKey \o <<0>>])

\* spl_token::instruction::mint_to with no multisig signers
mint_to(program, mintKey, accountKey, ownerKey, amount) ==
    IF ~CheckProgramAccount(program) THEN Err("IncorrectProgramId")
    ELSE Ok([program_id |-> program,
             accounts |-> <<Meta(mintKey, FALSE, TRUE), Meta(accountKey, FALSE, TRUE),
                            Meta(ownerKey, TRUE, FALSE)>>,
             data |-> <<7>> \o LeBytes(amount, 8)])

\* spl_token::instruction::transfer with no multisig signers
transfer(program, sourceKey, destinationKey, authorityKey, amount) ==
    IF ~CheckProgramAccount(program) THEN Err("IncorrectProgramId")
    ELSE Ok([program_id |-> program,
             accounts |-> <<Meta(sourceKey, FALSE, TRUE), Meta(destinationKey, FALSE, TRUE),
                            Meta(authorityKey, TRUE, FALSE)>>,
             data |-> <<3>> \o LeBytes(amount, 8)])

\* system_instruction::transfer: SystemInstruction::Transfer is variant 2.
system_transfer(fromKey, toKey, lamports) ==
    [program_id |-> SystemProgramId,
     accounts |-> <<Meta(fromKey, TRUE, TRUE), Meta(toKey, FALSE, TRUE)>>,
     data |-> LeBytes(2, 4) \o LeBytes(lamports, 8)]

\* get_associated_token_address(wallet, mint): an address derived from the wallet,
\* the token program and the mint under the associated-token program.
get_associated_token_address(walletKey, mintKey) ==
    [i \in 1..PUBKEY_BYTES |->
        (Digest(walletKey \o TokenProgramId \o mintKey \o AssociatedTokenProgramId)
         + walletKey[i] + 3 * mintKey[i] + i) % 256]

-----------------------------------------------------------------------------
(* src/src/errors.rs                                                        *)

MsgInvalidMintAuthority ==
    <<"I","n","v","a","l","i","d"," ","m","i","n","t"," ","a","u","t","h","o","r","i",
      "t","y"," ","a","d","d","r","e","s","s">>

MsgInvalidMint ==
    <<"I","n","v","a","l","i","d"," ","m","i","n","t"," ","a","d","d","r","e","s","s">>

MsgFailedMintInstruction ==
    <<"F","a","i","l","e","d"," ","t","o"," ","c","r","e","a","t","e"," ","m","i","n",
      "t"," ","i","n","s","t","r","u","c","t","i","o","n">>

MsgInvalidDestination ==
    <<"I","n","v","a","l","i","d"," ","d","e","s","t","i","n","a","t","i","o","n"," ",
      "a","d","d","r","e","s","s">>

MsgInvalidAuthority ==
    <<"I","n","v","a","l","i","d"," ","a","u","t","h","o","r","i","t","y"," ","a","d",
      "d","r","e","s","s">>

MsgInvalidBase58Secret ==
    <<"I","n","v","a","l","i","d"," ","b","a","s","e","5","8"," ","s","e","c","r","e",
      "t"," ","k","e","y">>

MsgSecretLength ==
    <<"S","e","c","r","e","t"," ","k","e","y"," ","m","u","s","t"," ","b","e"," ","6",
      "4"," ","b","y","t","e","s">>

MsgSecretFormat ==
    <<"I","n","v","a","l","i","d"," ","s","e","c","r","e","t"," ","k","e","y"," ","f",
      "o","r","m","a","t">>

MsgInvalidPublicKey ==
    <<"I","n","v","a","l","i","d"," ","p","u","b","l","i","c"," ","k","e","y">>

MsgInvalidBase64 ==
    <<"I","n","v","a","l","i","d"," ","b","a","s","e","6","4"," ","s","i","g","n","a",
      "t","u","r","e">>

MsgSignatureFormat ==
    <<"I","n","v","a","l","i","d"," ","s","i","g","n","a","t","u","r","e"," ","f","o",
      "r","m","a","t">>

MsgInvalidSender ==
    <<"I","n","v","a","l","i","d"," ","s","e","n","d","e","r"," ","a","d","d","r","e",
      "s","s">>

MsgInvalidRecipient ==
    <<"I","n","v","a","l","i","d"," ","r","e","c","i","p","i","e","n","t"," ","a","d",
      "d","r","e","s","s">>

MsgZeroAmount ==
    <<"A","m","o","u","n","t"," ","m","u","s","t"," ","b","e"," ","g","r","e","a","t",
      "e","r"," ","t","h","a","n"," ","0">>

MsgInvalidOwner ==
    <<"I","n","v","a","l","i","d"," ","o","w","n","e","r"," ","a","d","d","r","e","s",
      "s">>

MsgFailedTransferInstruction ==
    <<"F","a","i","l","e","d"," ","t","o"," ","c","r","e","a","t","e"," ","t","r","a",
      "n","s","f","e","r"," ","i","n","s","t","r","u","c","t","i","o","n">>

MsgMissingFields ==
    <<"M","i","s","s","i","n","g"," ","r","e","q","u","i","r","e","d"," ","f","i","e",
      "l","d","s">>

PrefixInvalidInput ==
    <<"I","n","v","a","l","i","d"," ","i","n","p","u","t",":"," ">>

PrefixCryptoError ==
    <<"C","r","y","p","t","o","g","r","a","p","h","i","c"," ","e","r","r","o","r",":",
      " ">>

PrefixInvalidPublicKey ==
    <<"I","n","v","a","l","i","d"," ","p","u","b","l","i","c"," ","k","e","y",":"," ">>

PrefixSecretLength ==
    <<"S","e","c","r","e","t"," ","k","e","y"," ","m","u","s","t"," ","b","e"," ","6",
      "4"," ","b","y","t","e","s",","," ","g","o","t"," ">>

PrefixSecretFormat ==
    <<"I","n","v","a","l","i","d"," ","s","e","c","r","e","t"," ","k","e","y"," ","f",
      "o","r","m","a","t",":"," ">>

MsgSignatureError ==
    <<"s","i","g","n","a","t","u","r","e"," ","e","r","r","o","r">>

OK == 200

BAD_REQUEST == 400

MissingFields == [kind |-> "MissingFields", msg |-> <<>>]

InvalidInput(msg) == [kind |-> "InvalidInput", msg |-> msg]

CryptoError(msg) == [kind |-> "CryptoError", msg |-> msg]

\* The thiserror Display of AppError
AppErrorToString(e) ==
    CASE e.kind = "MissingFields" -> MsgMissingFields
      [] e.kind = "InvalidInput" -> PrefixInvalidInput \o e.msg
      [] e.kind = "CryptoError" -> PrefixCryptoError \o e.msg

\* impl IntoResponse for AppError
into_response(e) ==
    [status |-> BAD_REQUEST, body |-> [success |-> FALSE, error |-> AppErrorToString(e)]]

-----------------------------------------------------------------------------
(* src/src/utils.rs                                                         *)

validate_pubkey(pubkey_str) ==
    LET parsed == PubkeyFromStr(pubkey_str)
    IN  IF parsed.ok THEN Ok(parsed.val)
        ELSE Err(InvalidInput(PrefixInvalidPublicKey \o pubkey_str))

validate_secret_key(secret_str, strictLib) ==
    LET decoded == Base58Decode(secret_str)
    IN  IF ~decoded.ok THEN Err(InvalidInput(MsgInvalidBase58Secret))
        ELSE IF Len(decoded.bytes) # 64
        THEN Err(InvalidInput(PrefixSecretLength \o Decimal(Len(decoded.bytes))))
        ELSE LET kp == KeypairTryFrom(decoded.bytes, strictLib)
             IN  IF kp.ok THEN Ok(kp.val)
                 ELSE Err(InvalidInput(PrefixSecretFormat \o MsgSignatureError))

-----------------------------------------------------------------------------
(* src/src/handlers.rs.  A handler returns its status code and JSON body,   *)
(* and, in `calls`, the checks and SDK calls it made, in order.             *)

Failure(msg) == [success |-> FALSE, error |-> msg]

Success(data) == [success |-> TRUE, data |-> data]

\* A variant of Reply: the body alone, which axum sends with status 200.
ReplyJsonOnly(status, body, calls) == [status |-> OK, body |-> body, calls |-> calls]

Reply(status, body, calls) == [status |-> status, body |-> body, calls |-> calls]

Parsed(field) == <<"parse", field>>

Checked(what) == <<"check", what>>

Called(fn) == <<"call", fn>>

\* The instruction flattened as create_token and mint_token do.
InstructionResponse(instruction) ==
    [program_id |-> PubkeyToString(instruction.program_id),
     accounts |-> [i \in 1..Len(instruction.accounts) |->
                    [pubkey |-> PubkeyToString(instruction.accounts[i].pubkey),
                     is_signer |-> instruction.accounts[i].is_signer,
                     is_writable |-> instruction.accounts[i].is_writable]],
     instruction_data |-> Base64Encode(instruction.data)]

SendSolResponse(instruction) ==
    [program_id |-> PubkeyToString(instruction.program_id),
     accounts |-> [i \in 1..Len(instruction.accounts) |->
                    PubkeyToString(instruction.accounts[i].pubkey)],
     instruction_data |-> Base64Encode(instruction.data)]

SendTokenResponse(instruction) ==
    [program_id |-> PubkeyToString(instruction.program_id),
     accounts |-> [i \in 1..Len(instruction.accounts) |->
                    [pubkey |-> PubkeyToString(instruction.accounts[i].pubkey),
                     is_signer |-> instruction.accounts[i].is_signer]],
     instruction_data |-> Base64Encode(instruction.data)]

\* seed: the 32 bytes Keypair::new() draws from the operating system's random source.
\* A variant of generate_keypair: the secret is the 32 secret bytes, not the 64-byte pair.
generate_keypair_SecretHalf(seed) ==
    LET keypair == KeypairNew(seed)
    IN  Reply(OK,
              Success([pubkey |-> PubkeyToString(keypair.public),
                       secret |-> Base58Encode(keypair.secret)]),
              <<Called("Keypair::new")>>)

generate_keypair(seed) ==
    LET keypair == KeypairNew(seed)
    IN  Reply(OK,
              Success([pubkey |-> PubkeyToString(keypair.public),
                       secret |-> Base58Encode(KeypairToBytes(keypair))]),
              <<Called("Keypair::new")>>)

create_token(payload) ==
    LET mint_authority == PubkeyFromStr(payload.mint_authority)
        mint == PubkeyFromStr(payload.mint)
        instruction == initialize_mint(TokenProgramId, mint.val, mint_authority.val,
                                       payload.decimals)
        c1 == <<Parsed("mint_authority")>>
        c2 == c1 \o <<Parsed("mint")>>
        c3 == c2 \o <<Called("initialize_mint")>>
    IN  IF ~mint_authority.ok THEN Reply(BAD_REQUEST, Failure(MsgInvalidMintAuthority), c1)
        ELSE IF ~mint.ok THEN Reply(BAD_REQUEST, Failure(MsgInvalidMint), c2)
        ELSE IF ~instruction.ok
        THEN Reply(BAD_REQUEST, Failure(MsgFailedMintInstruction), c3)
        ELSE Reply(OK, Success(InstructionResponse(instruction.val)), c3)

\* A variant of mint_token: the instruction is built before the authority is parsed.
mint_token_EarlyBuild(payload) ==
    LET mint == PubkeyFromStr(payload.mint)
        destination == PubkeyFromStr(payload.destination)
        authority == PubkeyFromStr(payload.authority)
        instruction == mint_to(TokenProgramId, mint.val, destination.val, authority.val,
                               payload.amount)
        c1 == <<Parsed("mint")>>
        c2 == c1 \o <<Parsed("destination")>>
        c3 == c2 \o <<Called("mint_to")>>
        c4 == c3 \o <<Parsed("authority")>>
    IN  IF ~mint.ok THEN Reply(BAD_REQUEST, Failure(MsgInvalidMint), c1)
        ELSE IF ~destination.ok THEN Reply(BAD_REQUEST, Failure(MsgInvalidDestination), c2)
        ELSE IF ~authority.ok THEN Reply(BAD_REQUEST, Failure(MsgInvalidAuthority), c4)
        ELSE IF ~instruction.ok
        THEN Reply(BAD_REQUEST, Failure(MsgFailedMintInstruction), c4)
        ELSE Reply(OK, Success(InstructionResponse(instruction.val)), c4)

mint_token(payload) ==
    LET mint == PubkeyFromStr(payload.mint)
        destination == PubkeyFromStr(payload.destination)
        authority == PubkeyFromStr(payload.authority)
        instruction == mint_to(TokenProgramId, mint.val, destination.val, authority.val,
                               payload.amount)
        c1 == <<Parsed("mint")>>
        c2 == c1 \o <<Parsed("destination")>>
        c3 == c2 \o <<Parsed("authority")>>
        c4 == c3 \o <<Called("mint_to")>>
    IN  IF ~mint.ok THEN Reply(BAD_REQUEST, Failure(MsgInvalidMint), c1)
        ELSE IF ~destination.ok THEN Reply(BAD_REQUEST, Failure(MsgInvalidDestination), c2)
        ELSE IF ~authority.ok THEN Reply(BAD_REQUEST, Failure(MsgInvalidAuthority), c3)
        ELSE IF ~instruction.ok
        THEN Reply(BAD_REQUEST, Failure(MsgFailedMintInstruction), c4)
        ELSE Reply(OK, Success(InstructionResponse(instruction.val)), c4)

\* A variant of sign_message: the signature is encoded in base58, like the keys.
sign_message_Base58Signature(payload, strictLib) ==
    LET secret_bytes == Base58Decode(payload.secret)
        keypair == KeypairTryFrom(secret_bytes.bytes, strictLib)
        signature == SignMessage(keypair.val, AsBytes(payload.message))
        c1 == <<Called("bs58::decode")>>
        c2 == c1 \o <<Checked("secret_bytes.len")>>
        c3 == c2 \o <<Called("Keypair::try_from")>>
        c4 == c3 \o <<Called("sign_message")>>
    IN  IF ~secret_bytes.ok THEN Reply(BAD_REQUEST, Failure(MsgInvalidBase58Secret), c1)
        ELSE IF Len(secret_bytes.bytes) # 64
        THEN Reply(BAD_REQUEST, Failure(MsgSecretLength), c2)
        ELSE IF ~keypair.ok THEN Reply(BAD_REQUEST, Failure(MsgSecretFormat), c3)
        ELSE Reply(OK,
                   Success([signature |-> Base58Encode(signature),
                            public_key |-> PubkeyToString(keypair.val.public),
                            message |-> payload.message]),
                   c4)

\* A variant of sign_message: a pair Keypair::try_from rejects is used as it stands.
sign_message_Unchecked(payload, strictLib) ==
    LET secret_bytes == Base58Decode(payload.secret)
        keypair == [secret |-> SubSeq(secret_bytes.bytes, 1, SECRET_KEY_LENGTH),
                    public |-> SubSeq(secret_bytes.bytes, SECRET_KEY_LENGTH + 1,
                                      KEYPAIR_LENGTH)]
        signature == SignMessage(keypair, AsBytes(payload.message))
        c1 == <<Called("bs58::decode")>>
        c2 == c1 \o <<Checked("secret_bytes.len")>>
        c3 == c2 \o <<Called("Keypair::try_from")>>
        c4 == c3 \o <<Called("sign_message")>>
    IN  IF ~secret_bytes.ok THEN Reply(BAD_REQUEST, Failure(MsgInvalidBase58Secret), c1)
        ELSE IF Len(secret_bytes.bytes) # 64
        THEN Reply(BAD_REQUEST, Failure(MsgSecretLength), c2)
        ELSE Reply(OK,
                   Success([signature |-> Base64Encode(signature),
                            public_key |-> PubkeyToString(keypair.public),
                            message |-> payload.message]),
                   c4)

sign_message(payload, strictLib) ==
    LET secret_bytes == Base58Decode(payload.secret)
        keypair == KeypairTryFrom(secret_bytes.bytes, strictLib)
        signature == SignMessage(keypair.val, AsBytes(payload.message))
        c1 == <<Called("bs58::decode")>>
        c2 == c1 \o <<Checked("secret_bytes.len")>>
        c3 == c2 \o <<Called("Keypair::try_from")>>
        c4 == c3 \o <<Called("sign_message")>>
    IN  IF ~secret_bytes.ok THEN Reply(BAD_REQUEST, Failure(MsgInvalidBase58Secret), c1)
        ELSE IF Len(secret_bytes.bytes) # 64
        THEN Reply(BAD_REQUEST, Failure(MsgSecretLength), c2)
        ELSE IF ~keypair.ok THEN Reply(BAD_REQUEST, Failure(MsgSecretFormat), c3)
        ELSE Reply(OK,
                   Success([signature |-> Base64Encode(signature),
                            public_key |-> PubkeyToString(keypair.val.public),
                            message |-> payload.message]),
                   c4)

\* A variant of verify_message: a signature of the wrong length is answered valid=false.
verify_message_SilentFalse(payload) ==
    LET pubkey == PubkeyFromStr(payload.pubkey)
        signature_bytes == Base64Decode(payload.signature)
        signature == SignatureTryFrom(signature_bytes.bytes)
        is_valid == signature.ok /\ SignatureVerify(signature.val, pubkey.val,
                                                    AsBytes(payload.message))
        c1 == <<Parsed("pubkey")>>
        c2 == c1 \o <<Called("base64::decode")>>
        c3 == c2 \o <<Called("Signature::try_from")>>
        c4 == c3 \o <<Called("verify")>>
    IN  IF ~pubkey.ok THEN Reply(BAD_REQUEST, Failure(MsgInvalidPublicKey), c1)
        ELSE IF ~signature_bytes.ok THEN Reply(BAD_REQUEST, Failure(MsgInvalidBase64), c2)
        ELSE Reply(OK,
                   Success([valid |-> is_valid,
                            message |-> payload.message,
                            pubkey |-> payload.pubkey]),
                   c4)

verify_message(payload) ==
    LET pubkey == PubkeyFromStr(payload.pubkey)
        signature_bytes == Base64Decode(payload.signature)
        signature == SignatureTryFrom(signature_bytes.bytes)
        is_valid == SignatureVerify(signature.val, pubkey.val, AsBytes(payload.message))
        c1 == <<Parsed("pubkey")>>
        c2 == c1 \o <<Called("base64::decode")>>
        c3 == c2 \o <<Called("Signature::try_from")>>
        c4 == c3 \o <<Called("verify")>>
    IN  IF ~pubkey.ok THEN Reply(BAD_REQUEST, Failure(MsgInvalidPublicKey), c1)
        ELSE IF ~signature_bytes.ok THEN Reply(BAD_REQUEST, Failure(MsgInvalidBase64), c2)
        ELSE IF ~signature.ok THEN Reply(BAD_REQUEST, Failure(MsgSignatureFormat), c3)
        ELSE Reply(OK,
                   Success([valid |-> is_valid,
                            message |-> payload.message,
                            pubkey |-> payload.pubkey]),
                   c4)

\* A variant of send_sol: no check of the amount.
send_sol_NoZeroCheck(payload) ==
    LET from_pubkey == PubkeyFromStr(payload.from)
        to_pubkey == PubkeyFromStr(payload.to)
        instruction == system_transfer(from_pubkey.val, to_pubkey.val, payload.lamports)
        c1 == <<Parsed("from")>>
        c2 == c1 \o <<Parsed("to")>>
        c4 == c2 \o <<Called("system_instruction::transfer")>>
    IN  IF ~from_pubkey.ok THEN Reply(BAD_REQUEST, Failure(MsgInvalidSender), c1)
        ELSE IF ~to_pubkey.ok THEN Reply(BAD_REQUEST, Failure(MsgInvalidRecipient), c2)
        ELSE Reply(OK, Success(SendSolResponse(instruction)), c4)

send_sol(payload) ==
    LET from_pubkey == PubkeyFromStr(payload.from)
        to_pubkey == PubkeyFromStr(payload.to)
        instruction == system_transfer(from_pubkey.val, to_pubkey.val, payload.lamports)
        c1 == <<Parsed("from")>>
        c2 == c1 \o <<Parsed("to")>>
        c3 == c2 \o <<Checked("lamports")>>
        c4 == c3 \o <<Called("system_instruction::transfer")>>
    IN  IF ~from_pubkey.ok THEN Reply(BAD_REQUEST, Failure(MsgInvalidSender), c1)
        ELSE IF ~to_pubkey.ok THEN Reply(BAD_REQUEST, Failure(MsgInvalidRecipient), c2)
        ELSE IF payload.lamports = 0 THEN Reply(BAD_REQUEST, Failure(MsgZeroAmount), c3)
        ELSE Reply(OK, Success(SendSolResponse(instruction)), c4)

\* A variant of send_token: the amount is checked first.
send_token_AmountFirst(payload) ==
    LET destination == PubkeyFromStr(payload.destination)
        mint == PubkeyFromStr(payload.mint)
        owner == PubkeyFromStr(payload.owner)
        source_ata == get_associated_token_address(owner.val, mint.val)
        destination_ata == get_associated_token_address(destination.val, mint.val)
        instruction == transfer(TokenProgramId, source_ata, destination_ata, owner.val,
                                payload.amount)
        c0 == <<Checked("amount")>>
        c1 == c0 \o <<Parsed("destination")>>
        c2 == c1 \o <<Parsed("mint")>>
        c3 == c2 \o <<Parsed("owner")>>
        c5 == c3 \o <<Called("get_associated_token_address"),
                      Called("get_associated_token_address"), Called("transfer")>>
    IN  IF payload.amount = 0 THEN Reply(BAD_REQUEST, Failure(MsgZeroAmount), c0)
        ELSE IF ~destination.ok
        THEN Reply(BAD_REQUEST, Failure(MsgInvalidDestination), c1)
        ELSE IF ~mint.ok THEN Reply(BAD_REQUEST, Failure(MsgInvalidMint), c2)
        ELSE IF ~owner.ok THEN Reply(BAD_REQUEST, Failure(MsgInvalidOwner), c3)
        ELSE IF ~instruction.ok
        THEN Reply(BAD_REQUEST, Failure(MsgFailedTransferInstruction), c5)
        ELSE Reply(OK, Success(SendTokenResponse(instruction.val)), c5)

send_token(payload) ==
    LET destination == PubkeyFromStr(payload.destination)
        mint == PubkeyFromStr(payload.mint)
        owner == PubkeyFromStr(payload.owner)
        source_ata == get_associated_token_address(owner.val, mint.val)
        destination_ata == get_associated_token_address(destination.val, mint.val)
        instruction == transfer(TokenProgramId, source_ata, destination_ata, owner.val,
                                payload.amount)
        c1 == <<Parsed("destination")>>
        c2 == c1 \o <<Parsed("mint")>>
        c3 == c2 \o <<Parsed("owner")>>
        c4 == c3 \o <<Checked("amount")>>
        c5 == c4 \o <<Called("get_associated_token_address"),
                      Called("get_associated_token_address"), Called("transfer")>>
    IN  IF ~destination.ok THEN Reply(BAD_REQUEST, Failure(MsgInvalidDestination), c1)
        ELSE IF ~mint.ok THEN Reply(BAD_REQUEST, Failure(MsgInvalidMint), c2)
        ELSE IF ~owner.ok THEN Reply(BAD_REQUEST, Failure(MsgInvalidOwner), c3)
        ELSE IF payload.amount = 0 THEN Reply(BAD_REQUEST, Failure(MsgZeroAmount), c4)
        ELSE IF ~instruction.ok
        THEN Reply(BAD_REQUEST, Failure(MsgFailedTransferInstruction), c5)
        ELSE Reply(OK, Success(SendTokenResponse(instruction.val)), c5)

-----------------------------------------------------------------------------
(* The requests the model serves.                                           *)

MaxInFlight == 2

NumSeeds == 2

MaxAmount == 1

\* The k-th 32-byte value the random source may return.
SeedOf(k) == [i \in 1..SECRET_KEY_LENGTH |-> (7 * i + 40 * k) % 256]

SeedPool == {SeedOf(k) : k \in 1..NumSeeds}

Messages == {<<"h","i">>, <<"h","o">>}

Amounts == 0..MaxAmount

\* Address strings: two well-formed keys, one with characters outside the base58
\* alphabet, one that decodes to 3 bytes.
AddrA == PubkeyToString(KeypairNew(SeedOf(1)).public)

AddrB == TokenProgramIdStr

BadChars == <<"0","O","I","l">>

WrongSize == <<"a","b","c">>

\* Secret strings: the generated ones, a 32-byte key, a pair whose public half belongs
\* to another secret, a pair whose public half is no point.
GoodSecrets == {Base58Encode(KeypairToBytes(KeypairNew(s))) : s \in SeedPool}

MismatchedSecret == Base58Encode(SeedOf(1) \o KeypairNew(SeedOf(0)).public)

NoPointSecret == Base58Encode(SeedOf(1) \o Repeat(1, PUBKEY_BYTES))

BadSecrets == {BadChars, AddrA, MismatchedSecret, NoPointSecret}

\* Signature strings: a signature of "hi" under the first key, the same without its
\* padding, and the base64 of 32 bytes.
GoodSignature == Base64Encode(SignMessage(KeypairNew(SeedOf(1)), AsBytes(<<"h","i">>)))

UnpaddedSignature == SubSeq(GoodSignature, 1, Len(GoodSignature) - 2)

ShortSignature == Base64Encode(Repeat(9, PUBKEY_BYTES))

CreateTokenRequests ==
    {[mint_authority |-> a, mint |-> m, decimals |-> 9] :
        a \in {AddrA, BadChars}, m \in {AddrB, WrongSize}}

MintTokenRequests ==
    {[mint |-> m, destination |-> d, authority |-> a, amount |-> MaxAmount] :
        m \in {AddrB, BadChars}, d \in {AddrA, WrongSize}, a \in {AddrA, BadChars}}

SignMessageRequests ==
    {[secret |-> s, message |-> m] : s \in GoodSecrets, m \in Messages}
    \cup {[secret |-> s, message |-> <<"h","i">>] : s \in BadSecrets}

VerifyMessageRequests ==
    {[pubkey |-> k, signature |-> s, message |-> <<"h","i">>] :
        k \in {AddrA, AddrB, BadChars},
        s \in {GoodSignature, UnpaddedSignature, ShortSignature}}
    \cup {[pubkey |-> AddrA, signature |-> GoodSignature, message |-> <<"h","o">>]}

SendSolRequests ==
    {[from |-> f, to |-> r, lamports |-> n] :
        f \in {AddrA, BadChars}, r \in {AddrB, WrongSize}, n \in Amounts}

SendTokenRequests ==
    {[destination |-> d, mint |-> m, owner |-> o, amount |-> n] :
        d \in {AddrA, WrongSize}, m \in {AddrB, BadChars}, o \in {AddrA, BadChars},
        n \in Amounts}

AddressStrings == {AddrA, AddrB, BadChars, WrongSize}

SecretStrings == GoodSecrets \cup BadSecrets

-----------------------------------------------------------------------------
(* src/src/main.rs: the router.  Requests are served independently; a slot  *)
(* is one connection, idle or holding the exchange it has just served.      *)
(* strict: whether the linked Keypair::try_from checks the public half      *)
(* against the secret half (it depends on the SDK version of the build).    *)

Handlers ==
    {"generate_keypair", "create_token", "mint_token", "sign_message", "verify_message",
     "send_sol", "send_token"}

\* What each handler answers to each request of the model, computed once.
CreateTokenReplies == [p \in CreateTokenRequests |-> create_token(p)]

MintTokenReplies == [p \in MintTokenRequests |-> mint_token(p)]

SignMessageReplies ==
    [lib \in BOOLEAN |-> [p \in SignMessageRequests |-> sign_message(p, lib)]]

VerifyMessageReplies == [p \in VerifyMessageRequests |-> verify_message(p)]

SendSolReplies == [p \in SendSolRequests |-> send_sol(p)]

SendTokenReplies == [p \in SendTokenRequests |-> send_token(p)]

KeypairReplies == [s \in SeedPool |-> generate_keypair(s)]

ValidatePubkeyResults == [s \in AddressStrings |-> validate_pubkey(s)]

ValidateSecretKeyResults ==
    [lib \in BOOLEAN |-> [s \in SecretStrings |-> validate_secret_key(s, lib)]]

Idle == [op |-> "idle"]

Exchange(op, payload, reply) ==
    [op |-> op, payload |-> payload, status |-> reply.status, body |-> reply.body,
     calls |-> reply.calls]

\* The route table of main: the reply of the handler the request is routed to.
Router(op, payload, strictLib) ==
    CASE op = "generate_keypair" -> KeypairReplies[payload.entropy]
      [] op = "create_token" -> CreateTokenReplies[payload]
      [] op = "mint_token" -> MintTokenReplies[payload]
      [] op = "sign_message" -> SignMessageReplies[strictLib][payload]
      [] op = "verify_message" -> VerifyMessageReplies[payload]
      [] op = "send_sol" -> SendSolReplies[payload]
      [] op = "send_token" -> SendTokenReplies[payload]

\* A variant of Serve: the handler keeps its last reply in a static, and a request that
\* arrives while another connection holds an exchange of the same route gets that reply.
ServeShared(i, op, payload) ==
    IF \E j \in DOMAIN inflight : j # i /\ inflight[j].op = op
    THEN LET j == CHOOSE j \in DOMAIN inflight : j # i /\ inflight[j].op = op
         IN  [inflight[j] EXCEPT !.payload = payload]
    ELSE Exchange(op, payload, Router(op, payload, strict))

\* The exchange on connection i: the request and the reply it gets.
Serve(i, op, payload) == Exchange(op, payload, Router(op, payload, strict))

Slots == 1..MaxInFlight

Init ==
    /\ inflight = [i \in Slots |-> Idle]
    /\ strict \in BOOLEAN

PostKeypair(i) ==
    /\ inflight[i] = Idle
    /\ \E seed \in SeedPool :
          inflight' = [inflight EXCEPT ![i] = Serve(i, "generate_keypair", [entropy |-> seed])]
    /\ UNCHANGED strict

PostTokenCreate(i) ==
    /\ inflight[i] = Idle
    /\ \E p \in CreateTokenRequests :
          inflight' = [inflight EXCEPT ![i] = Serve(i, "create_token", p)]
    /\ UNCHANGED strict

PostTokenMint(i) ==
    /\ inflight[i] = Idle
    /\ \E p \in MintTokenRequests :
          inflight' = [inflight EXCEPT ![i] = Serve(i, "mint_token", p)]
    /\ UNCHANGED strict

PostMessageSign(i) ==
    /\ inflight[i] = Idle
    /\ \E p \in SignMessageRequests :
          inflight' = [inflight EXCEPT ![i] = Serve(i, "sign_message", p)]
    /\ UNCHANGED strict

PostMessageVerify(i) ==
    /\ inflight[i] = Idle
    /\ \E p \in VerifyMessageRequests :
          inflight' = [inflight EXCEPT ![i] = Serve(i, "verify_message", p)]
    /\ UNCHANGED strict

PostSendSol(i) ==
    /\ inflight[i] = Idle
    /\ \E p \in SendSolRequests :
          inflight' = [inflight EXCEPT ![i] = Serve(i, "send_sol", p)]
    /\ UNCHANGED strict

PostSendToken(i) ==
    /\ inflight[i] = Idle
    /\ \E p \in SendTokenRequests :
          inflight' = [inflight EXCEPT ![i] = Serve(i, "send_token", p)]
    /\ UNCHANGED strict

\* utils.rs: no route calls these two; they are called directly, as a unit test would.
CallValidatePubkey(i) ==
    /\ inflight[i] = Idle
    /\ \E s \in AddressStrings :
          inflight' = [inflight EXCEPT ![i] =
                          [op |-> "validate_pubkey", payload |-> s,
                           result |-> ValidatePubkeyResults[s]]]
    /\ UNCHANGED strict

CallValidateSecretKey(i) ==
    /\ inflight[i] = Idle
    /\ \E s \in SecretStrings :
          inflight' = [inflight EXCEPT ![i] =
                          [op |-> "validate_secret_key", payload |-> s,
                           result |-> ValidateSecretKeyResults[strict][s]]]
    /\ UNCHANGED strict

\* The response is written to the connection, which is then free again.
Respond(i) ==
    /\ inflight[i] # Idle
    /\ inflight' = [inflight EXCEPT ![i] = Idle]
    /\ UNCHANGED strict

Next ==
    \E i \in Slots :
        \/ PostKeypair(i)
        \/ PostTokenCreate(i)
        \/ PostTokenMint(i)
        \/ PostMessageSign(i)
        \/ PostMessageVerify(i)
        \/ PostSendSol(i)
        \/ PostSendToken(i)
        \/ CallValidatePubkey(i)
        \/ CallValidateSecretKey(i)
        \/ Respond(i)

Spec == Init /\ [][Next]_vars

-----------------------------------------------------------------------------
(* Properties.  What a string "is" is stated here from the encodings alone, *)
(* not from what a handler answered.                                        *)

Exchanges == {inflight[i] : i \in Slots} \ {Idle}

Of(op) == {x \in Exchanges : x.op = op}

HandlerExchanges == {x \in Exchanges : x.op \in Handlers}

Range(s) == {s[k] : k \in 1..Len(s)}

CallsMade(x) == {k \in 1..Len(x.calls) : x.calls[k][1] = "call"}

SuccessShape(x) ==
    x.status = OK /\ DOMAIN x.body = {"success", "data"} /\ x.body.success = TRUE

ErrorShape(x) ==
    /\ x.status = BAD_REQUEST
    /\ DOMAIN x.body = {"success", "error"}
    /\ x.body.success = FALSE
    /\ Len(x.body.error) > 0

\* s is the base58 of exactly 32 bytes.
KeyShape ==
    [s \in AddressStrings |->
        LET d == Base58Decode(s) IN d.ok /\ Len(d.bytes) = PUBKEY_BYTES]

SignatureStrings == {GoodSignature, UnpaddedSignature, ShortSignature}

SignatureShape ==
    [s \in SignatureStrings |->
        LET d == Base64Decode(s) IN [base64 |-> d.ok, len |-> Len(d.bytes)]]

SecretShapeOf(s) ==
    LET d == Base58Decode(s)
    IN  [alphabet |-> \A k \in 1..Len(s) : s[k] \in B58Chars,
         len |-> IF d.ok THEN Len(d.bytes) ELSE -1,
         bytes |-> d.bytes,
         consistent |-> /\ d.ok
                        /\ Len(d.bytes) = KEYPAIR_LENGTH
                        /\ SubSeq(d.bytes, SECRET_KEY_LENGTH + 1, KEYPAIR_LENGTH)
                             = PublicFromSecret(SubSeq(d.bytes, 1, SECRET_KEY_LENGTH))]

SecretShapes == [s \in SecretStrings |-> SecretShapeOf(s)]

SecretShape(s) == IF s \in SecretStrings THEN SecretShapes[s] ELSE SecretShapeOf(s)

\* The address-like fields of each request, in the order C10 states them.
AddressFields ==
    [create_token |-> <<"mint_authority", "mint">>,
     mint_token |-> <<"mint", "destination", "authority">>,
     verify_message |-> <<"pubkey">>,
     send_sol |-> <<"from", "to">>,
     send_token |-> <<"destination", "mint", "owner">>]

Builders == {"create_token", "mint_token", "send_sol", "send_token"}

BuilderExchanges == {x \in Exchanges : x.op \in Builders}

InvalidFields(x) ==
    {k \in 1..Len(AddressFields[x.op]) : ~KeyShape[x.payload[AddressFields[x.op][k]]]}

FirstInvalid(x) ==
    IF InvalidFields(x) = {} THEN 0
    ELSE CHOOSE k \in InvalidFields(x) : \A j \in InvalidFields(x) : k <= j

\* The AppError values the validators produced, and the two built without input.
AppErrorsSeen ==
    {x.result.err : x \in {y \in Of("validate_pubkey") \cup Of("validate_secret_key") :
                             ~y.result.ok}}
    \cup {MissingFields, CryptoError(MsgSignatureError)}

\* C1: every handler answers 200 with success=true and data, or 400 with
\* success=false and an error string, and nothing else; AppError::into_response
\* answers 400 with success=false for every AppError.
C1_TwoResponseShapes ==
    /\ \A x \in HandlerExchanges : SuccessShape(x) \/ ErrorShape(x)
    /\ \A e \in AppErrorsSeen :
          /\ into_response(e).status = BAD_REQUEST
          /\ into_response(e).body.success = FALSE

C1_Witness ==
    /\ \E x \in HandlerExchanges : SuccessShape(x)
    /\ \E x \in HandlerExchanges : ErrorShape(x)

\* Structural defects of a verification request, from the encodings alone.
Malformed(p) ==
    \/ ~KeyShape[p.pubkey]
    \/ ~SignatureShape[p.signature].base64
    \/ SignatureShape[p.signature].len # SIGNATURE_BYTES

GenuineTriples ==
    {[pubkey |-> PubkeyToString(KeypairNew(s).public),
      signature |-> Base64Encode(SignMessage(KeypairNew(s), AsBytes(m))),
      message |-> m] : s \in SeedPool, m \in Messages}

\* C2: verify_message answers 400 exactly when the key is not the base58 of 32 bytes,
\* or the signature is not base64, or it is not 64 bytes long; otherwise it answers
\* 200 with a boolean, which is false for a signature that was not made for this key
\* and message.
C2_VerifyErrorsOnlyOnMalformed ==
    \A x \in Of("verify_message") :
        IF Malformed(x.payload) THEN ErrorShape(x)
        ELSE /\ SuccessShape(x)
             /\ x.body.data.valid \in BOOLEAN
             /\ x.payload \notin GenuineTriples => x.body.data.valid = FALSE

C2_Witness ==
    /\ \E x \in Of("verify_message") :
          ~Malformed(x.payload) /\ x.payload \notin GenuineTriples /\ x.status = OK
    /\ \E x \in Of("verify_message") :
          /\ KeyShape[x.payload.pubkey]
          /\ SignatureShape[x.payload.signature].base64
          /\ SignatureShape[x.payload.signature].len # SIGNATURE_BYTES
          /\ x.status = BAD_REQUEST

\* The verification request made of what sign_message answered.
RoundTripRequest(x) ==
    [pubkey |-> x.body.data.public_key, signature |-> x.body.data.signature,
     message |-> x.payload.message]

\* The verification requests made of every answer sign_message gives to a request of
\* the model, and what verify_message answers to each, computed once.
RoundTripRequests ==
    {[pubkey |-> SignMessageReplies[c[1]][c[2]].body.data.public_key,
      signature |-> SignMessageReplies[c[1]][c[2]].body.data.signature,
      message |-> c[2].message] :
        c \in {d \in BOOLEAN \X SignMessageRequests :
                  SignMessageReplies[d[1]][d[2]].status = OK}}

RoundTripReplies == [q \in RoundTripRequests |-> verify_message(q)]

RoundTripReply(x) ==
    IF RoundTripRequest(x) \in RoundTripRequests
    THEN RoundTripReplies[RoundTripRequest(x)]
    ELSE verify_message(RoundTripRequest(x))

\* C3: what sign_message returns for a well-formed key pair and a message,
\* verify_message accepts: status 200 and valid=true.
C3_SignThenVerify ==
    \A x \in Of("sign_message") :
        (x.status = OK /\ SecretShape(x.payload.secret).consistent)
            => /\ RoundTripReply(x).status = OK
               /\ RoundTripReply(x).body.data.valid = TRUE

C3_Witness ==
    \E x \in Of("sign_message"), y \in Of("verify_message") :
        /\ x.status = OK
        /\ SecretShape(x.payload.secret).consistent
        /\ y.payload = RoundTripRequest(x)
        /\ y.status = OK
        /\ y.body.data.valid = TRUE

\* What Keypair::try_from says of each secret string of the pool.
TryFromAccepts ==
    [lib \in BOOLEAN |->
        [s \in SecretStrings |-> KeypairTryFrom(SecretShapes[s].bytes, lib).ok]]

Rejected(s) ==
    \/ ~SecretShapes[s].alphabet
    \/ SecretShapes[s].len # KEYPAIR_LENGTH
    \/ ~TryFromAccepts[strict][s]

\* C4: a secret with a character outside the base58 alphabet, or of a decoded length
\* other than 64, or that Keypair::try_from rejects, gets an error and no signature;
\* a signature is made only after the three checks, in that order.
C4_SecretValidatedBeforeSigning ==
    /\ \A x \in Of("sign_message") :
          IF Rejected(x.payload.secret)
          THEN ErrorShape(x) /\ Called("sign_message") \notin Range(x.calls)
          ELSE /\ SuccessShape(x)
               /\ x.calls = <<Called("bs58::decode"), Checked("secret_bytes.len"),
                              Called("Keypair::try_from"), Called("sign_message")>>
    /\ \A x \in Of("validate_secret_key") :
          IF Rejected(x.payload)
          THEN ~x.result.ok /\ x.result.err.kind = "InvalidInput"
          ELSE x.result.ok

C4_Witness ==
    /\ \E x \in Of("sign_message") :
          /\ SecretShapes[x.payload.secret].len = KEYPAIR_LENGTH
          /\ Rejected(x.payload.secret)
          /\ x.status = BAD_REQUEST
    /\ \E x \in Of("validate_secret_key") :
          SecretShapes[x.payload].len # KEYPAIR_LENGTH /\ ~x.result.ok

\* C5: create_token, mint_token, send_sol and send_token call an instruction builder
\* only after every address field of the request has been parsed, and parsed
\* successfully; with an invalid address field no builder is called.
C5_ValidateBeforeDelegate ==
    \A x \in BuilderExchanges :
        /\ \A k \in CallsMade(x) :
              \A f \in Range(AddressFields[x.op]) :
                  /\ KeyShape[x.payload[f]]
                  /\ \E j \in 1..(k - 1) : x.calls[j] = Parsed(f)
        /\ InvalidFields(x) # {} => CallsMade(x) = {} /\ x.status = BAD_REQUEST

C5_Witness ==
    /\ \E x \in Of("send_token") : CallsMade(x) # {}
    /\ \E x \in Of("mint_token") : InvalidFields(x) = {3} /\ CallsMade(x) = {}

\* C6: send_sol with lamports = 0 and send_token with amount = 0 answer 400 and build
\* nothing, whatever the addresses; send_sol with lamports = 1 and two valid addresses
\* answers 200 with 2 accounts and a non-empty instruction_data.
C6_ZeroAmountRejected ==
    /\ \A x \in Of("send_sol") :
          /\ x.payload.lamports = 0 => ErrorShape(x) /\ CallsMade(x) = {}
          /\ (x.payload.lamports = 1 /\ InvalidFields(x) = {})
                => /\ SuccessShape(x)
                   /\ Len(x.body.data.accounts) = 2
                   /\ Len(x.body.data.instruction_data) > 0
    /\ \A x \in Of("send_token") :
          x.payload.amount = 0 => ErrorShape(x) /\ CallsMade(x) = {}

C6_Witness ==
    /\ \E x \in Of("send_sol") :
          x.payload.lamports = 0 /\ InvalidFields(x) = {} /\ x.status = BAD_REQUEST
    /\ \E x \in Of("send_sol") : x.payload.lamports = 1 /\ x.status = OK

\* Exchanges whose request carries an address field that is no 32-byte base58 key.
ParseFailures ==
    {x \in Exchanges :
        /\ x.op \in DOMAIN AddressFields
        /\ FirstInvalid(x) > 0}

\* C7: when an address field fails to parse, the error message of the response
\* contains the offending string.
C7_ErrorNamesOffendingString ==
    /\ \A x \in ParseFailures :
          /\ x.status = BAD_REQUEST
          /\ Contains(x.body.error, x.payload[AddressFields[x.op][FirstInvalid(x)]])
    /\ \A x \in Of("validate_pubkey") :
          ~KeyShape[x.payload]
              => ~x.result.ok /\ Contains(AppErrorToString(x.result.err), x.payload)

\* The exchange a request gets when nothing else is in flight.
ServedAlone(x) == Exchange(x.op, x.payload, Router(x.op, x.payload, strict))

C8_SameAsAlone ==
    \A i \in Slots :
        (inflight[i].op \in Handlers \ {"generate_keypair"})
            => inflight[i] = ServedAlone(inflight[i])

C8_OthersUntouched ==
    \A i \in Slots :
        inflight'[i] # inflight[i]
            => strict' = strict /\ \A j \in Slots \ {i} : inflight'[j] = inflight[j]

SignReply(secret, message) ==
    IF [secret |-> secret, message |-> message] \in SignMessageRequests
    THEN SignMessageReplies[strict][[secret |-> secret, message |-> message]]
    ELSE sign_message([secret |-> secret, message |-> message], strict)

\* C9: the secret generate_keypair returns is the base58 of 64 bytes whose second
\* half is the public key of the first half, and sign_message with that secret
\* answers 200 with the public key generate_keypair returned.
C9_GeneratedKeypairUsable ==
    \A x \in Of("generate_keypair") :
        /\ SecretShape(x.body.data.secret).consistent
        /\ \A m \in Messages :
              /\ SignReply(x.body.data.secret, m).status = OK
              /\ SignReply(x.body.data.secret, m).body.data.public_key = x.body.data.pubkey
        /\ \A y \in Of("sign_message") :
              y.payload.secret = x.body.data.secret
                  => y.status = OK /\ y.body.data.public_key = x.body.data.pubkey

C9_Witness ==
    \E x \in Of("generate_keypair"), y \in Of("sign_message") :
        y.payload.secret = x.body.data.secret /\ y.status = OK

\* The fixed message of each address field, in the order the handler checks them.
FieldMessage ==
    [create_token |-> <<MsgInvalidMintAuthority, MsgInvalidMint>>,
     mint_token |-> <<MsgInvalidMint, MsgInvalidDestination, MsgInvalidAuthority>>,
     send_sol |-> <<MsgInvalidSender, MsgInvalidRecipient>>,
     send_token |-> <<MsgInvalidDestination, MsgInvalidMint, MsgInvalidOwner>>]

AmountOf(x) ==
    CASE x.op = "send_sol" -> x.payload.lamports
      [] x.op = "send_token" -> x.payload.amount
      [] OTHER -> 1

\* C10: the checks run in a fixed order and the first failure is the one reported:
\* the address fields in declaration order, then the amount; "Amount must be greater
\* than 0" is reported only when every address field is valid.
C10_FirstFailureReported ==
    \A x \in BuilderExchanges :
        /\ FirstInvalid(x) > 0
              => /\ ErrorShape(x)
                 /\ x.body.error = FieldMessage[x.op][FirstInvalid(x)]
                 /\ x.calls = [k \in 1..FirstInvalid(x) |-> Parsed(AddressFields[x.op][k])]
        /\ (FirstInvalid(x) = 0 /\ AmountOf(x) = 0)
              => ErrorShape(x) /\ x.body.error = MsgZeroAmount
        /\ (x.status = BAD_REQUEST /\ x.body.error = MsgZeroAmount)
              => FirstInvalid(x) = 0 /\ AmountOf(x) = 0

C10_Witness ==
    /\ \E x \in Of("send_token") :
          FirstInvalid(x) > 0 /\ AmountOf(x) = 0 /\ x.body.error # MsgZeroAmount
    /\ \E x \in Of("send_sol") :
          FirstInvalid(x) = 2 /\ AmountOf(x) = 0 /\ x.body.error = MsgInvalidRecipient

====
